---- MODULE Spec2Model ----
(***************************************************************************)
(* Model of the YM2612 register image and its MIDI SysEx command layer     *)
(* (src/YM2612.py): the chip object with its six channel slots, the        *)
(* flattened register array, the SysEx framing and the four commands.      *)
(* Python objects are modelled as a heap of channel records addressed by   *)
(* reference, because load_vgi_file stores one object in several slots.    *)
(***************************************************************************)
EXTENDS Integers, Sequences, FiniteSets, TLC

\* ------------------------------------------------------------ constants
YM_MAX_NUM_USER_PRESETS == 5
YM_MAX_NUM_DEFAULT_PRESETS == 8
YM_MAX_VOICES == 6
YM_MAX_OPERATORS == 4
YM_SYSEX_CMD_SET_REG == 0
YM_SYSEX_CMD_SAVE_PRESET == 1
YM_SYSEX_CMD_LOAD_PRESET == 2
YM_SYSEX_CMD_LOAD_DEFAULT_PRESET == 3
\* minimum delay between commands, in milliseconds (0.2 s)
YM_MIDI_DELAY == 200
\* self.vendor_id = 0x001234
vendor_id == 4660
\* the length load_vgi_file accepts
VGI_SIZE == 43

\* ------------------------------------------------------------ bounds
\* number of image-changing calls (field writes, file loads, custom presets) in a run
MaxEdits == 2
\* preset positions tried by the preset commands are 0..MaxSlot
MaxSlot == 8

Voices == 0 .. (YM_MAX_VOICES - 1)
Operators == 0 .. (YM_MAX_OPERATORS - 1)
Slots == 0 .. MaxSlot

\* the value a caller stores in a field directly: wider than a byte and than every
\* declared width (in-range values come from the custom preset and the files)
FieldValues == {300}
\* the channel slot and the operator the caller writes to directly
EditVoices == {5}
EditOperators == {3}
VoiceFields == {"feedback", "op_algorithm", "audio_out", "amp_mod_sens", "phase_mod_sens"}
OperatorFields == {"detune", "multiple", "total_level", "key_scale", "attack_rate",
                   "amp_mod_on", "decay_rate", "sustain_rate", "sustain_level",
                   "release_rate", "ssg_envelope"}

\* preset names as sequences of code points: "", "LEAD", a 15 character name,
\* a 16 character name, and a name with a non-ASCII character (R, e-acute)
NameEmpty == << >>
NameLEAD == <<76, 69, 65, 68>>
Name15 == <<65, 66, 67, 68, 69, 70, 71, 72, 73, 74, 75, 76, 77, 78, 79>>
Name16 == <<65, 66, 67, 68, 69, 70, 71, 72, 73, 74, 75, 76, 77, 78, 79, 80>>
NameAccent == <<82, 233>>
PresetNames == {NameEmpty, NameLEAD, Name15, Name16, NameAccent}
\* the preset position and name the image specification sends
ProbeSlots == {0}
ProbeNames == {NameLEAD}

\* file contents handed to load_vgi_file: 43 zero bytes, 43 patterned bytes, 40 bytes
VgiZero == [i \in 1 .. 43 |-> 0]
VgiPattern == [i \in 1 .. 43 |-> (i * 37 + 101) % 256]
VgiShort == [i \in 1 .. 40 |-> 9]
VgiFiles == {VgiZero, VgiPattern, VgiShort}

\* bound on the number of calls made on the application
MaxGuiSteps == 3

\* files for the application: 43 zero bytes; a voice with every field within its
\* width (algorithm 5, feedback 6, output bits 1, AMS 1, PMS 5, SSG-EG bytes 0);
\* 40 bytes; 44 bytes
VgiVoiceOperator(i) ==
    <<3 + i, 1 + i, 20 + i, i, 10 + i, 128 * (i % 2) + 7 + i, 5 + i, 2 + i, 4 + i, 0>>
VgiVoice == <<5, 6, 85>> \o VgiVoiceOperator(0) \o VgiVoiceOperator(1)
                        \o VgiVoiceOperator(2) \o VgiVoiceOperator(3)
VgiLong == [i \in 1 .. 44 |-> 1]
GuiVgiFiles == {VgiZero, VgiVoice, VgiShort, VgiLong}
\* the voice tabs files are loaded into and saved from, and the tab whose
\* controls are moved
GuiVoices == {0, 5}
GuiEditVoices == {5}

\* ------------------------------------------------------------ state
VARIABLES
    lfo_on,      \* self.lfo_on
    lfo_freq,    \* self.lfo_freq
    self_attrs,  \* attributes load_vgi_file creates on the chip object itself
    channel,     \* self.channel: slot index -> reference of a channel object
    heap,        \* reference -> channel object (fields and its four operators)
    midiout,     \* TRUE when self.midiout is set
    call,        \* the last call made on the chip: its arguments, whether a
                 \* transport was set, what it sent, what it returned
    edits,       \* number of image-changing calls so far
    pk,          \* a channel object and an operator object outside any chip, and
                 \* the register bytes their getters have returned so far
    gui,         \* the application's control variables and combo boxes
    vgi_disk,    \* the bytes of the file saveVgiFile wrote last
    gui_call,    \* the last call made on the application
    gui_steps,   \* number of calls made on the application so far
    wire         \* what the transport and the clock have seen, oldest first: the
                 \* frames handed to send_message and the delays slept

chip_vars == <<lfo_on, lfo_freq, self_attrs, channel, heap, midiout, call, edits>>
pack_vars == <<pk>>
gui_vars == <<gui, vgi_disk, gui_call, gui_steps>>
wire_vars == <<wire>>
vars == <<lfo_on, lfo_freq, self_attrs, channel, heap, midiout, call, edits,
          pk, gui, vgi_disk, gui_call, gui_steps, wire>>

\* ------------------------------------------------------------ bit helpers
\* x >> n for a non-negative x
Shr(x, n) == x \div (2 ^ n)
\* x & (2^w - 1)
LowBits(x, w) == x % (2 ^ w)
\* x << n
Shl(x, n) == x * (2 ^ n)
\* x & y and x | y for non-negative x and y, bit by bit
RECURSIVE BitAnd(_, _)
BitAnd(x, y) ==
    IF x = 0 \/ y = 0 THEN 0
    ELSE (IF x % 2 = 1 /\ y % 2 = 1 THEN 1 ELSE 0) + 2 * BitAnd(x \div 2, y \div 2)
RECURSIVE BitOr(_, _)
BitOr(x, y) ==
    IF x = 0 THEN y
    ELSE IF y = 0 THEN x
    ELSE (IF x % 2 = 1 \/ y % 2 = 1 THEN 1 ELSE 0) + 2 * BitOr(x \div 2, y \div 2)

\* ------------------------------------------------------------ objects
YMOperator == [detune |-> 0, multiple |-> 0, total_level |-> 0, key_scale |-> 0,
               attack_rate |-> 0, amp_mod_on |-> 0, decay_rate |-> 0,
               sustain_rate |-> 0, sustain_level |-> 0, release_rate |-> 0,
               ssg_envelope |-> 0]

\* a channel constructed with audio_out 0
YMChannel_out_off(id) == [channel_id |-> id, feedback |-> 0, op_algorithm |-> 0,
                          audio_out |-> 0, phase_mod_sens |-> 0, amp_mod_sens |-> 0,
                          operator |-> [o \in Operators |-> YMOperator]]

YMChannel(id) == [channel_id |-> id, feedback |-> 0, op_algorithm |-> 0,
                  audio_out |-> 3, phase_mod_sens |-> 0, amp_mod_sens |-> 0,
                  operator |-> [o \in Operators |-> YMOperator]]

\* the attribute does not exist on the chip object
NoAttr == -1
NoSelfAttrs == [op_algorithm |-> NoAttr, feedback |-> NoAttr, audio_out |-> NoAttr,
                amp_mod_sens |-> NoAttr, phase_mod_sens |-> NoAttr]

\* what a call that only changes the image leaves in the call record
NoSend == [sent |-> FALSE, frame |-> << >>, retval |-> "None", slept |-> FALSE]

CallRec(op, pos, name, len, r) ==
    [op |-> op, preset_pos |-> pos, preset_name |-> name, vgi_len |-> len,
     vgi_data |-> << >>, transport |-> midiout, sent |-> r.sent, frame |-> r.frame,
     retval |-> r.retval, slept |-> r.slept]

ChipInit ==
    /\ lfo_on = 0
    /\ lfo_freq = 0
    /\ self_attrs = NoSelfAttrs
    /\ channel = [c \in Voices |-> c]
    /\ heap = [r \in Voices |-> YMChannel(r)]
    /\ midiout = FALSE
    /\ call = CallRec("init", 0, << >>, 0, NoSend)
    /\ edits = 0

\* ------------------------------------------------------------ application objects
\* the combo box reference tables, with their keys in the order the dict lists them
voiceOutKeys == <<"R+L", "R", "L", "OFF">>
voiceOutValues == ("R+L" :> 3) @@ ("R" :> 1) @@ ("L" :> 2) @@ ("OFF" :> 0)

SSGEGKeys == <<"OFF", "ADSR ADSR ADSR", "ADSR OFF", "ADSR RSDA ADSR", "ADSR ON",
               "RSDA RSDA RSDA", "RSDA ON", "RSDA ADSR RSDA", "RSDA OFF">>
SSGEGValues == ("OFF" :> 0) @@ ("ADSR ADSR ADSR" :> 8) @@ ("ADSR OFF" :> 9) @@
               ("ADSR RSDA ADSR" :> 10) @@ ("ADSR ON" :> 11) @@
               ("RSDA RSDA RSDA" :> 12) @@ ("RSDA ON" :> 13) @@
               ("RSDA ADSR RSDA" :> 14) @@ ("RSDA OFF" :> 15)

\* the control variables of one operator tab: IntVar() starts at 0, the
\* BooleanVar of the amplitude modulation box is held as 0 or 1, the combo box
\* starts at current(0)
GuiOperator ==
    [varOperatorDetune |-> 0, varOperatorMultiple |-> 0, varOperatorKeyScale |-> 0,
     varOperatorAmpMod |-> 0, comboOperatorSSGEG |-> SSGEGKeys[1],
     varOperatorTotalLevel |-> 0, varOperatorAttackRate |-> 0,
     varOperatorSustainLevel |-> 0, varOperatorSustainRate |-> 0,
     varOperatorDecayRate |-> 0, varOperatorReleaseRate |-> 0]

\* the control variables of one voice tab
GuiVoice ==
    [varVoiceFeedback |-> 0, varVoiceAlgorithm |-> 0, comboVoiceOut |-> voiceOutKeys[1],
     varVoiceAMS |-> 0, varVoicePMS |-> 0,
     operator |-> [o \in Operators |-> GuiOperator]]

GuiCallRec(op, voiceId, byte_data) ==
    [op |-> op, voiceId |-> voiceId, byte_data |-> byte_data]

GuiInit ==
    /\ gui = [varVoiceAll |-> FALSE, varLiveUpdate |-> FALSE, varLfoOn |-> 0,
              varLfoRate |-> 0, varPresetCombo |-> "Live",
              voice |-> [v \in Voices |-> GuiVoice]]
    /\ vgi_disk = << >>
    /\ gui_call = GuiCallRec("init", 0, << >>)
    /\ gui_steps = 0

\* ------------------------------------------------------------ register getters
\* a channel object and an operator object as their constructors leave them,
\* with no register read yet
PackIdle == [channel |-> YMChannel(0), operator |-> YMOperator, regs |-> << >>]

Init ==
    /\ ChipInit
    /\ GuiInit
    /\ pk = PackIdle
    /\ wire = << >>

get_reg_LRAMSPMS(ch) ==
    BitOr(BitOr(Shl(BitAnd(ch.audio_out, 3), 6), Shl(BitAnd(ch.amp_mod_sens, 3), 4)),
          BitAnd(ch.phase_mod_sens, 7))

get_reg_FBALG(ch) == BitOr(Shl(BitAnd(ch.feedback, 3), 3), BitAnd(ch.op_algorithm, 7))

\* the detune mask taken as 0xF0
get_reg_DETMUL_wide(op) == BitOr(BitAnd(Shl(op.detune, 4), 240), BitAnd(op.multiple, 15))

get_reg_DETMUL(op) == BitOr(BitAnd(Shl(op.detune, 4), 112), BitAnd(op.multiple, 15))

get_reg_TL(op) == BitAnd(op.total_level, 127)

\* the key scale shifted by 5
get_reg_KSAR_shift5(op) == BitOr(Shl(BitAnd(op.key_scale, 3), 5), BitAnd(op.attack_rate, 31))

get_reg_KSAR(op) == BitOr(Shl(BitAnd(op.key_scale, 3), 6), BitAnd(op.attack_rate, 31))

get_reg_AMDR(op) == BitOr(Shl(BitAnd(op.amp_mod_on, 1), 7), BitAnd(op.decay_rate, 31))

get_reg_SR(op) == BitAnd(op.sustain_rate, 31)

\* the sustain level left unshifted
get_reg_SLRL_noshift(op) == BitOr(BitAnd(op.sustain_level, 15), BitAnd(op.release_rate, 15))

get_reg_SLRL(op) == BitOr(Shl(BitAnd(op.sustain_level, 15), 4), BitAnd(op.release_rate, 15))

get_reg_SSGEG(op) == BitAnd(op.ssg_envelope, 15)

\* the objects the getters are applied to: the fields of one register byte take
\* every value from 0 to one past the largest their bits hold, and 255, while
\* the other fields are all zero or all at their largest
WideRange(w) == (0 .. 2 ^ w) \cup {255}

OperatorMax == [detune |-> 7, multiple |-> 15, total_level |-> 127, key_scale |-> 3,
                attack_rate |-> 31, amp_mod_on |-> 1, decay_rate |-> 31,
                sustain_rate |-> 31, sustain_level |-> 15, release_rate |-> 15,
                ssg_envelope |-> 15]

ChannelZero == [YMChannel(0) EXCEPT !.audio_out = 0]
ChannelMax == [YMChannel(0) EXCEPT !.feedback = 7, !.op_algorithm = 7, !.audio_out = 3,
                                   !.amp_mod_sens = 3, !.phase_mod_sens = 7]

PackOperators ==
    UNION {
        {[b EXCEPT !.detune = x, !.multiple = y] : x \in WideRange(3), y \in WideRange(4)}
        \cup {[b EXCEPT !.total_level = x] : x \in WideRange(7)}
        \cup {[b EXCEPT !.key_scale = x, !.attack_rate = y] :
                  x \in WideRange(2), y \in WideRange(5)}
        \cup {[b EXCEPT !.amp_mod_on = x, !.decay_rate = y] :
                  x \in WideRange(1), y \in WideRange(5)}
        \cup {[b EXCEPT !.sustain_rate = x] : x \in WideRange(5)}
        \cup {[b EXCEPT !.sustain_level = x, !.release_rate = y] :
                  x \in WideRange(4), y \in WideRange(4)}
        \cup {[b EXCEPT !.ssg_envelope = x] : x \in WideRange(4)}
        : b \in {YMOperator, OperatorMax}}

PackChannels ==
    UNION {
        {[b EXCEPT !.feedback = x, !.op_algorithm = y] :
            x \in WideRange(3), y \in WideRange(3)}
        \cup {[b EXCEPT !.audio_out = x, !.amp_mod_sens = y, !.phase_mod_sens = z] :
                  x \in WideRange(2), y \in WideRange(2), z \in WideRange(3)}
        : b \in {ChannelZero, ChannelMax}}

PackInputs ==
    {[PackIdle EXCEPT !.operator = o] : o \in PackOperators}
    \cup {[PackIdle EXCEPT !.channel = c] : c \in PackChannels}

PackInit ==
    /\ ChipInit
    /\ GuiInit
    /\ pk \in PackInputs
    /\ wire = << >>

\* the registers are read one after the other, in the order of the register list:
\* the seven of the operator, then the two of the channel
PackRead(position, value) ==
    /\ Len(pk.regs) = position - 1
    /\ pk' = [pk EXCEPT !.regs = Append(@, value)]
    /\ UNCHANGED chip_vars
    /\ UNCHANGED gui_vars
    /\ UNCHANGED wire_vars

read_DETMUL == PackRead(1, get_reg_DETMUL(pk.operator))
read_TL == PackRead(2, get_reg_TL(pk.operator))
read_KSAR == PackRead(3, get_reg_KSAR(pk.operator))
read_AMDR == PackRead(4, get_reg_AMDR(pk.operator))
read_SR == PackRead(5, get_reg_SR(pk.operator))
read_SLRL == PackRead(6, get_reg_SLRL(pk.operator))
read_SSGEG == PackRead(7, get_reg_SSGEG(pk.operator))
read_FBALG == PackRead(8, get_reg_FBALG(pk.channel))
read_LRAMSPMS == PackRead(9, get_reg_LRAMSPMS(pk.channel))

PackNext ==
    \/ read_DETMUL
    \/ read_TL
    \/ read_KSAR
    \/ read_AMDR
    \/ read_SR
    \/ read_SLRL
    \/ read_SSGEG
    \/ read_FBALG
    \/ read_LRAMSPMS

SpecPack == PackInit /\ [][PackNext]_vars


\* ------------------------------------------------------------ flatten
\* the object stored in slot ch_id
ChannelObj(ch_id) == heap[channel[ch_id]]

\* mutant: the last append of an operator is missing
OperatorRegs_short(op) ==
    <<op.detune, op.multiple, op.total_level, op.key_scale, op.attack_rate,
      op.amp_mod_on, op.decay_rate, op.sustain_rate, op.sustain_level,
      op.release_rate>>

\* the eleven appends of one operator, in the order of the code
OperatorRegs(op) ==
    <<op.detune, op.multiple, op.total_level, op.key_scale, op.attack_rate,
      op.amp_mod_on, op.decay_rate, op.sustain_rate, op.sustain_level,
      op.release_rate, op.ssg_envelope>>

\* mutant: the channel fields in the order of the constructor's parameters
ChannelRegs_ctor_order(ch) ==
    <<ch.feedback, ch.op_algorithm, ch.audio_out, ch.phase_mod_sens, ch.amp_mod_sens>>
    \o OperatorRegs(ch.operator[0]) \o OperatorRegs(ch.operator[1])
    \o OperatorRegs(ch.operator[2]) \o OperatorRegs(ch.operator[3])

\* the five appends of one channel followed by its operators 0..3
ChannelRegs(ch) ==
    <<ch.feedback, ch.op_algorithm, ch.audio_out, ch.amp_mod_sens, ch.phase_mod_sens>>
    \o OperatorRegs(ch.operator[0]) \o OperatorRegs(ch.operator[1])
    \o OperatorRegs(ch.operator[2]) \o OperatorRegs(ch.operator[3])

get_reg_values_array ==
    <<lfo_on, lfo_freq>>
    \o ChannelRegs(ChannelObj(0)) \o ChannelRegs(ChannelObj(1))
    \o ChannelRegs(ChannelObj(2)) \o ChannelRegs(ChannelObj(3))
    \o ChannelRegs(ChannelObj(4)) \o ChannelRegs(ChannelObj(5))

\* ------------------------------------------------------------ SysEx framing
\* mutant: the command byte is appended after the payload
SysexFrame_cmd_last(midi_cmd, cmd_payload) ==
    <<240, LowBits(Shr(vendor_id, 16), 8), LowBits(Shr(vendor_id, 8), 8),
      LowBits(Shr(vendor_id, 0), 8)>>
    \o cmd_payload \o <<midi_cmd, 247>>

\* sysex_data as built by __send_midi_cmd
SysexFrame(midi_cmd, cmd_payload) ==
    <<240, LowBits(Shr(vendor_id, 16), 8), LowBits(Shr(vendor_id, 8), 8),
      LowBits(Shr(vendor_id, 0), 8), midi_cmd>>
    \o cmd_payload \o <<247>>

\* a sender that returns right after send_message, without time.sleep
send_midi_cmd_nosleep(midi_cmd, cmd_payload) ==
    IF midiout
    THEN [sent |-> TRUE, frame |-> SysexFrame(midi_cmd, cmd_payload),
          retval |-> "True", slept |-> FALSE]
    ELSE [sent |-> FALSE, frame |-> << >>, retval |-> "False", slept |-> TRUE]

\* __send_midi_cmd: frames and sends when a transport is set, sleeps either way
send_midi_cmd(midi_cmd, cmd_payload) ==
    IF midiout
    THEN [sent |-> TRUE, frame |-> SysexFrame(midi_cmd, cmd_payload),
          retval |-> "True", slept |-> TRUE]
    ELSE [sent |-> FALSE, frame |-> << >>, retval |-> "False", slept |-> TRUE]

\* a command that returns before building anything: retval = False
Rejected == [sent |-> FALSE, frame |-> << >>, retval |-> "False", slept |-> FALSE]

\* ------------------------------------------------------------ preset name
\* "{:<15}".format(preset_name): pads with spaces up to 15, never shortens
format_preset_name(preset_name) ==
    IF Len(preset_name) >= 15
    THEN preset_name
    ELSE preset_name \o [i \in 1 .. (15 - Len(preset_name)) |-> 32]

\* str.encode() of one character (UTF-8, code points below 0x800)
EncodeChar(cp) ==
    IF cp < 128 THEN <<cp>> ELSE <<192 + Shr(cp, 6), 128 + LowBits(cp, 6)>>

RECURSIVE encode(_)
encode(str) ==
    IF str = << >> THEN << >> ELSE EncodeChar(Head(str)) \o encode(Tail(str))

\* mutant: the high nibble is appended first
NameNibbles_high_first(str_ch) == <<LowBits(Shr(str_ch, 4), 4), LowBits(Shr(str_ch, 0), 4)>>

\* the two appends made for one byte of the encoded name
NameNibbles(str_ch) == <<LowBits(Shr(str_ch, 0), 4), LowBits(Shr(str_ch, 4), 4)>>

RECURSIVE NamePayload(_)
NamePayload(preset_name_bytes) ==
    IF preset_name_bytes = << >> THEN << >>
    ELSE NameNibbles(Head(preset_name_bytes)) \o NamePayload(Tail(preset_name_bytes))

\* ------------------------------------------------------------ commands
SetRegPayload == get_reg_values_array

\* mutant: the register data is appended before the name
SavePresetPayload_regs_first(preset_pos, preset_name) ==
    <<preset_pos>> \o get_reg_values_array
    \o NamePayload(encode(format_preset_name(preset_name)))

\* cmd_payload as built by midi_save_preset, given what get_reg_values_array
\* returns at the time of the call
SavePresetPayloadOf(preset_pos, preset_name, reg_array) ==
    <<preset_pos>> \o NamePayload(encode(format_preset_name(preset_name)))
    \o reg_array

SavePresetPayload(preset_pos, preset_name) ==
    SavePresetPayloadOf(preset_pos, preset_name, get_reg_values_array)

\* mutants: the position tests off by one
UserSlotOk_le(preset_pos) == preset_pos <= YM_MAX_NUM_USER_PRESETS
DefaultSlotOk_le(preset_pos) == preset_pos <= YM_MAX_NUM_DEFAULT_PRESETS

\* the tests on preset_pos that guard the preset commands
UserSlotOk(preset_pos) == preset_pos < YM_MAX_NUM_USER_PRESETS
DefaultSlotOk(preset_pos) == preset_pos < YM_MAX_NUM_DEFAULT_PRESETS

\* a command that clears lfo_on
Unchanged_image_lfo == lfo_on' = 0 /\ UNCHANGED <<lfo_freq, self_attrs, channel, heap>>

Unchanged_image == UNCHANGED <<lfo_on, lfo_freq, self_attrs, channel, heap>>

midi_set_reg_values ==
    /\ call' = CallRec("midi_set_reg_values", 0, << >>, 0,
                       send_midi_cmd(YM_SYSEX_CMD_SET_REG, SetRegPayload))
    /\ Unchanged_image
    /\ UNCHANGED <<midiout, edits>>

midi_save_preset(preset_pos, preset_name) ==
    /\ call' = CallRec("midi_save_preset", preset_pos, preset_name, 0,
                       IF UserSlotOk(preset_pos)
                       THEN send_midi_cmd(YM_SYSEX_CMD_SAVE_PRESET,
                                          SavePresetPayload(preset_pos, preset_name))
                       ELSE Rejected)
    /\ Unchanged_image
    /\ UNCHANGED <<midiout, edits>>

midi_load_default_preset(preset_pos) ==
    /\ call' = CallRec("midi_load_default_preset", preset_pos, << >>, 0,
                       IF DefaultSlotOk(preset_pos)
                       THEN send_midi_cmd(YM_SYSEX_CMD_LOAD_DEFAULT_PRESET, <<preset_pos>>)
                       ELSE Rejected)
    /\ Unchanged_image
    /\ UNCHANGED <<midiout, edits>>

midi_load_preset(preset_pos) ==
    /\ call' = CallRec("midi_load_preset", preset_pos, << >>, 0,
                       IF UserSlotOk(preset_pos)
                       THEN send_midi_cmd(YM_SYSEX_CMD_LOAD_PRESET, <<preset_pos>>)
                       ELSE Rejected)
    /\ Unchanged_image
    /\ UNCHANGED <<midiout, edits>>

\* self.FmChip.midiout = self.midiHandler: an attribute assignment by the owner
\* of the chip; the record of the last call stays as it was
set_midiout ==
    /\ ~midiout
    /\ midiout' = TRUE
    /\ Unchanged_image
    /\ UNCHANGED <<call, edits>>


\* ------------------------------------------------------------ field writes
\* a caller's plain attribute assignments (the fields are public)
set_lfo_on(v) ==
    /\ edits < MaxEdits
    /\ lfo_on' = v
    /\ call' = CallRec("set_field", 0, << >>, 0, NoSend)
    /\ edits' = edits + 1
    /\ UNCHANGED <<lfo_freq, self_attrs, channel, heap, midiout>>

set_lfo_freq(v) ==
    /\ edits < MaxEdits
    /\ lfo_freq' = v
    /\ call' = CallRec("set_field", 0, << >>, 0, NoSend)
    /\ edits' = edits + 1
    /\ UNCHANGED <<lfo_on, self_attrs, channel, heap, midiout>>

\* self.channel[voice].<field> = v: writes the object the slot refers to
set_channel_field(voice, fld, v) ==
    /\ edits < MaxEdits
    /\ heap' = [heap EXCEPT ![channel[voice]][fld] = v]
    /\ call' = CallRec("set_field", 0, << >>, 0, NoSend)
    /\ edits' = edits + 1
    /\ UNCHANGED <<lfo_on, lfo_freq, self_attrs, channel, midiout>>

\* self.channel[voice].operator[op_id].<field> = v
set_operator_field(voice, op_id, fld, v) ==
    /\ edits < MaxEdits
    /\ heap' = [heap EXCEPT ![channel[voice]].operator[op_id][fld] = v]
    /\ call' = CallRec("set_field", 0, << >>, 0, NoSend)
    /\ edits' = edits + 1
    /\ UNCHANGED <<lfo_on, lfo_freq, self_attrs, channel, midiout>>

\* ------------------------------------------------------------ VGI load
\* operator operator_id as read from bytes 3+10*id .. 12+10*id (0-based) of the file
VgiOperator(byte_data, operator_id) ==
    LET b(k) == byte_data[3 + 10 * operator_id + k + 1]
    IN  [multiple |-> b(0), detune |-> b(1), total_level |-> b(2), key_scale |-> b(3),
         attack_rate |-> b(4),
         amp_mod_on |-> LowBits(Shr(b(5), 7), 1), decay_rate |-> LowBits(Shr(b(5), 0), 5),
         sustain_rate |-> b(6), release_rate |-> b(7), sustain_level |-> b(8),
         ssg_envelope |-> b(9)]

\* the voice-level bytes, which the code assigns to attributes of the chip itself
VgiSelfAttrs(byte_data) ==
    [op_algorithm |-> byte_data[1], feedback |-> byte_data[2],
     audio_out |-> LowBits(Shr(byte_data[3], 6), 2),
     amp_mod_sens |-> LowBits(Shr(byte_data[3], 4), 2),
     phase_mod_sens |-> LowBits(Shr(byte_data[3], 0), 3)]

\* the object of slot 0 after the load: operators from the file, and channel_id
\* as left by the copy loop, whose last pass writes 5 into the shared object
VgiChannel0(byte_data) ==
    [heap[channel[0]] EXCEPT
        !.operator = [o \in Operators |-> VgiOperator(byte_data, o)],
        !.channel_id = YM_MAX_VOICES - 1]

load_vgi_file(byte_data) ==
    /\ edits < MaxEdits
    /\ edits' = edits + 1
    /\ call' = [CallRec("load_vgi_file", 0, << >>, Len(byte_data), NoSend)
                EXCEPT !.vgi_data = byte_data]
    /\ IF Len(byte_data) = VGI_SIZE
       THEN /\ self_attrs' = VgiSelfAttrs(byte_data)
            /\ heap' = [heap EXCEPT ![channel[0]] = VgiChannel0(byte_data)]
            /\ channel' = [c \in Voices |-> channel[0]]
       ELSE UNCHANGED <<self_attrs, heap, channel>>
    /\ UNCHANGED <<lfo_on, lfo_freq, midiout>>

\* ------------------------------------------------------------ custom preset
CustomOperator(op_id) ==
    CASE op_id = 0 -> [total_level |-> 40, multiple |-> 15, detune |-> 3, attack_rate |-> 31,
                       decay_rate |-> 4, sustain_level |-> 0, sustain_rate |-> 10,
                       release_rate |-> 3, key_scale |-> 1, amp_mod_on |-> 1, ssg_envelope |-> 0]
      [] op_id = 1 -> [total_level |-> 7, multiple |-> 3, detune |-> 5, attack_rate |-> 30,
                       decay_rate |-> 8, sustain_level |-> 3, sustain_rate |-> 6,
                       release_rate |-> 3, key_scale |-> 1, amp_mod_on |-> 0, ssg_envelope |-> 0]
      [] op_id = 2 -> [total_level |-> 25, multiple |-> 7, detune |-> 5, attack_rate |-> 31,
                       decay_rate |-> 4, sustain_level |-> 3, sustain_rate |-> 17,
                       release_rate |-> 1, key_scale |-> 1, amp_mod_on |-> 0, ssg_envelope |-> 0]
      [] OTHER     -> [total_level |-> 3, multiple |-> 2, detune |-> 4, attack_rate |-> 31,
                       decay_rate |-> 5, sustain_level |-> 2, sustain_rate |-> 12,
                       release_rate |-> 3, key_scale |-> 1, amp_mod_on |-> 0, ssg_envelope |-> 0]

CustomChannel(ch) ==
    [ch EXCEPT !.op_algorithm = 4, !.feedback = 3, !.audio_out = 3,
               !.phase_mod_sens = 0, !.amp_mod_sens = 2,
               !.operator = [o \in Operators |-> CustomOperator(o)]]

\* every object some slot refers to gets the preset; the rest of the heap is untouched
CustomHeap ==
    [r \in Voices |-> IF \E c \in Voices : channel[c] = r
                      THEN CustomChannel(heap[r]) ELSE heap[r]]

\* the register array of the image the preset leaves
CustomRegs ==
    LET regs(c) == ChannelRegs(CustomHeap[channel[c]])
    IN  <<1, 0>> \o regs(0) \o regs(1) \o regs(2) \o regs(3) \o regs(4) \o regs(5)

set_custom_preset ==
    /\ edits < MaxEdits
    /\ edits' = edits + 1
    /\ lfo_on' = 1
    /\ lfo_freq' = 0
    /\ heap' = CustomHeap
    /\ call' = CallRec("set_custom_preset", 0, << >>, 0,
                       IF midiout
                       THEN send_midi_cmd(YM_SYSEX_CMD_SET_REG, CustomRegs)
                       ELSE [NoSend EXCEPT !.retval = "True"])
    /\ UNCHANGED <<self_attrs, channel, midiout>>

\* ------------------------------------------------------------ application
\* The handlers below end before their live-update tail; a specification joins
\* each to ChipIdle (LIVE UPDATE unchecked, as the constructor leaves it) or to
\* LiveUpdate.
GuiTick == gui_steps < MaxGuiSteps /\ gui_steps' = gui_steps + 1

\* VOICE ALL is a check box without a command
check_varVoiceAll ==
    /\ GuiTick
    /\ gui' = [gui EXCEPT !.varVoiceAll = ~@]
    /\ gui_call' = GuiCallRec("check_varVoiceAll", 0, << >>)
    /\ UNCHANGED vgi_disk

\* the values a control of a voice tab can be moved to, and those of an operator tab
VoiceControlValues ==
    {<<"varVoiceFeedback", 7>>, <<"varVoiceAlgorithm", 7>>, <<"varVoiceAMS", 3>>,
     <<"varVoicePMS", 7>>}
    \cup {<<"comboVoiceOut", voiceOutKeys[i]>> : i \in 1 .. Len(voiceOutKeys)}
OperatorControlValues ==
    {<<"varOperatorDetune", 7>>, <<"varOperatorMultiple", 15>>,
     <<"varOperatorTotalLevel", 127>>, <<"varOperatorDecayRate", 31>>}
    \cup {<<"comboOperatorSSGEG", SSGEGKeys[i]>> : i \in 1 .. Len(SSGEGKeys)}

\* a control of voice tab voiceId is moved to eventVar; with VOICE ALL checked
\* the handler sets the same control of every voice
updateParameterEventVoice(voiceId, control, eventVar) ==
    /\ GuiTick
    /\ gui' = [gui EXCEPT !.voice =
                   [v \in Voices |-> IF v = voiceId \/ gui.varVoiceAll
                                     THEN [@[v] EXCEPT ![control] = eventVar]
                                     ELSE @[v]]]
    /\ gui_call' = GuiCallRec("updateParameterEventVoice", voiceId, << >>)
    /\ UNCHANGED vgi_disk

updateParameterEventOperator(voiceId, operatorId, control, eventVar) ==
    /\ GuiTick
    /\ gui' = [gui EXCEPT !.voice =
                   [v \in Voices |-> IF v = voiceId \/ gui.varVoiceAll
                                     THEN [@[v] EXCEPT !.operator[operatorId][control] = eventVar]
                                     ELSE @[v]]]
    /\ gui_call' = GuiCallRec("updateParameterEventOperator", voiceId, << >>)
    /\ UNCHANGED vgi_disk

\* the amplitude modulation box of an operator is clicked
updateAmpMod(voiceId, operatorId) ==
    LET varValue == 1 - gui.voice[voiceId].operator[operatorId].varOperatorAmpMod
    IN  /\ GuiTick
        /\ gui' = [gui EXCEPT !.voice =
                       [v \in Voices |->
                           IF v = voiceId \/ gui.varVoiceAll
                           THEN [@[v] EXCEPT !.operator[operatorId].varOperatorAmpMod = varValue]
                           ELSE @[v]]]
        /\ gui_call' = GuiCallRec("updateAmpMod", voiceId, << >>)
        /\ UNCHANGED vgi_disk

\* the size test of loadVgiFile taken as "at least 43"
GuiSizeOk_atleast(byte_data) == Len(byte_data) >= 43

GuiSizeOk(byte_data) == Len(byte_data) = 43

\* the controls of one operator tab as loadVgiFile sets them
GuiVgiOperator(byte_data, operator_id) ==
    LET at(k) == byte_data[3 + 10 * operator_id + k]
    IN  [varOperatorMultiple |-> at(1), varOperatorDetune |-> at(2),
         varOperatorTotalLevel |-> at(3), varOperatorKeyScale |-> at(4),
         varOperatorAttackRate |-> at(5),
         varOperatorAmpMod |-> BitAnd(Shr(at(6), 7), 1),
         varOperatorDecayRate |-> BitAnd(Shr(at(6), 0), 31),
         varOperatorSustainRate |-> at(7), varOperatorReleaseRate |-> at(8),
         varOperatorSustainLevel |-> at(9),
         comboOperatorSSGEG |-> SSGEGKeys[BitAnd(at(10), 7) + 1]]

\* the controls of one voice tab as loadVgiFile sets them: current(i) selects
\* the i-th entry of the combo box
GuiVgiVoice(byte_data) ==
    [varVoiceAlgorithm |-> byte_data[1], varVoiceFeedback |-> byte_data[2],
     comboVoiceOut |-> voiceOutKeys[BitAnd(Shr(byte_data[3], 6), 3) + 1],
     varVoiceAMS |-> BitAnd(Shr(byte_data[3], 4), 3),
     varVoicePMS |-> BitAnd(Shr(byte_data[3], 0), 7),
     operator |-> [o \in Operators |-> GuiVgiOperator(byte_data, o)]]

\* the files a load can name: the given ones and the one saved last
GuiFilesOnDisk == GuiVgiFiles \cup (IF vgi_disk = << >> THEN {} ELSE {vgi_disk})

loadVgiFile(byte_data, voiceId) ==
    /\ GuiTick
    /\ gui' = IF GuiSizeOk(byte_data)
              THEN [gui EXCEPT !.voice[voiceId] = GuiVgiVoice(byte_data)]
              ELSE gui
    /\ gui_call' = GuiCallRec("loadVgiFile", voiceId, byte_data)
    /\ UNCHANGED vgi_disk

\* the file is loaded into every voice tab
loadPreset(byte_data) ==
    /\ GuiTick
    /\ gui' = IF GuiSizeOk(byte_data)
              THEN [gui EXCEPT !.voice = [v \in Voices |-> GuiVgiVoice(byte_data)]]
              ELSE gui
    /\ gui_call' = GuiCallRec("loadPreset", 0, byte_data)
    /\ UNCHANGED vgi_disk

\* the ten bytes saveVgiFile writes for one operator tab
GuiOperatorBytes(op) ==
    <<op.varOperatorMultiple, op.varOperatorDetune, op.varOperatorTotalLevel,
      op.varOperatorKeyScale, op.varOperatorAttackRate,
      BitOr(Shl(op.varOperatorAmpMod, 7), op.varOperatorDecayRate),
      op.varOperatorSustainRate, op.varOperatorReleaseRate, op.varOperatorSustainLevel,
      SSGEGValues[op.comboOperatorSSGEG]>>

\* the file saveVgiFile writes for one voice tab
GuiVoiceBytes(v) ==
    <<v.varVoiceAlgorithm, v.varVoiceFeedback,
      BitOr(BitOr(Shl(voiceOutValues[v.comboVoiceOut], 6), Shl(v.varVoiceAMS, 4)),
            Shl(v.varVoicePMS, 0))>>
    \o GuiOperatorBytes(v.operator[0]) \o GuiOperatorBytes(v.operator[1])
    \o GuiOperatorBytes(v.operator[2]) \o GuiOperatorBytes(v.operator[3])

saveVgiFile(voiceId) ==
    /\ GuiTick
    /\ vgi_disk' = GuiVoiceBytes(gui.voice[voiceId])
    /\ gui_call' = GuiCallRec("saveVgiFile", voiceId, GuiVoiceBytes(gui.voice[voiceId]))
    /\ UNCHANGED gui

\* a call on the application leaves the chip and the objects outside it alone
ChipIdle == UNCHANGED chip_vars /\ UNCHANGED pack_vars /\ UNCHANGED wire_vars

\* the application's controls, its file loads and saves, and the chip's file load
GuiNext ==
    \/ check_varVoiceAll /\ ChipIdle
    \/ \E v \in GuiEditVoices, c \in VoiceControlValues :
           updateParameterEventVoice(v, c[1], c[2]) /\ ChipIdle
    \/ \E v \in GuiEditVoices, o \in EditOperators, c \in OperatorControlValues :
           updateParameterEventOperator(v, o, c[1], c[2]) /\ ChipIdle
    \/ \E v \in GuiEditVoices, o \in EditOperators : updateAmpMod(v, o) /\ ChipIdle
    \/ \E b \in GuiFilesOnDisk, v \in GuiVoices : loadVgiFile(b, v) /\ ChipIdle
    \/ \E b \in GuiFilesOnDisk : loadPreset(b) /\ ChipIdle
    \/ \E v \in GuiVoices : saveVgiFile(v) /\ ChipIdle
    \/ \E b \in GuiVgiFiles :
           /\ load_vgi_file(b)
           /\ GuiTick
           /\ UNCHANGED <<pk, gui, vgi_disk, gui_call, wire>>

SpecGui == Init /\ [][GuiNext]_vars

\* ------------------------------------------------------------ specification
\* a call on the chip leaves the application and the objects outside the chip alone
Idle == UNCHANGED pack_vars /\ UNCHANGED gui_vars /\ UNCHANGED wire_vars

\* the calls that change the register image
Write ==
    \/ \E v \in FieldValues : set_lfo_on(v) /\ Idle
    \/ \E v \in FieldValues : set_lfo_freq(v) /\ Idle
    \/ \E c \in EditVoices, f \in VoiceFields, v \in FieldValues :
           set_channel_field(c, f, v) /\ Idle
    \/ \E c \in EditVoices, o \in EditOperators, f \in OperatorFields, v \in FieldValues :
           set_operator_field(c, o, f, v) /\ Idle

\* the register image under field writes, file loads and presets, with the
\* commands sent for one position and one name
Next ==
    \/ Write
    \/ \E b \in VgiFiles : load_vgi_file(b) /\ Idle
    \/ set_custom_preset /\ Idle
    \/ set_midiout /\ Idle
    \/ midi_set_reg_values /\ Idle
    \/ \E p \in ProbeSlots, n \in ProbeNames : midi_save_preset(p, n) /\ Idle
    \/ \E p \in ProbeSlots : midi_load_default_preset(p) /\ Idle
    \/ \E p \in ProbeSlots : midi_load_preset(p) /\ Idle

Spec == Init /\ [][Next]_vars

\* the commands for every position 0..MaxSlot and every name, over the images
\* that file loads and the custom preset produce
PresetNext ==
    \/ \E b \in VgiFiles : load_vgi_file(b) /\ Idle
    \/ set_custom_preset /\ Idle
    \/ set_midiout /\ Idle
    \/ midi_set_reg_values /\ Idle
    \/ \E p \in Slots, n \in PresetNames : midi_save_preset(p, n) /\ Idle
    \/ \E p \in Slots : midi_load_default_preset(p) /\ Idle
    \/ \E p \in Slots : midi_load_preset(p) /\ Idle

SpecPreset == Init /\ [][PresetNext]_vars

\* the commands, accepted and rejected, with and without a transport, and the
\* register getters, over the images that file loads and the custom preset produce
SerialSlots == {0, 5, 8}

SerialNext ==
    \/ \E b \in VgiFiles : load_vgi_file(b) /\ Idle
    \/ set_custom_preset /\ Idle
    \/ set_midiout /\ Idle
    \/ midi_set_reg_values /\ Idle
    \/ \E p \in SerialSlots : midi_save_preset(p, NameLEAD) /\ Idle
    \/ \E p \in SerialSlots : midi_load_default_preset(p) /\ Idle
    \/ \E p \in SerialSlots : midi_load_preset(p) /\ Idle
    \/ PackNext

SpecSerial == Init /\ [][SerialNext]_vars

\* The chip's commands with the transport and the clock observed: each call
\* appends what it handed to send_message, then what it slept.
MaxWire == 4

WireEvents(c) ==
    (IF c.sent THEN <<[kind |-> "frame", data |-> c.frame]>> ELSE << >>)
    \o (IF c.slept THEN <<[kind |-> "delay", data |-> <<YM_MIDI_DELAY>>]>> ELSE << >>)

WireLog ==
    /\ Len(wire) < MaxWire
    /\ wire' = wire \o WireEvents(call')
    /\ UNCHANGED pack_vars
    /\ UNCHANGED gui_vars

WireNext ==
    \/ set_midiout /\ Idle
    \/ set_custom_preset /\ WireLog
    \/ midi_set_reg_values /\ WireLog
    \/ \E p \in SerialSlots : midi_save_preset(p, NameLEAD) /\ WireLog
    \/ \E p \in SerialSlots : midi_load_default_preset(p) /\ WireLog
    \/ \E p \in SerialSlots : midi_load_preset(p) /\ WireLog

SpecWire == Init /\ [][WireNext]_vars

\* ------------------------------------------------------------ live update
\* The application with its chip: the constructor creates the chip, then hands
\* it the MIDI handler; the handlers run once that is done.
\* the entries of the preset combo box as its StringVar returns them
PresetSlotKeys == <<"Live", "0", "1", "2", "3", "4">>

\* int(presetSlot) of an entry other than 'Live'
int_presetSlot == ("0" :> 0) @@ ("1" :> 1) @@ ("2" :> 2) @@ ("3" :> 3) @@ ("4" :> 4)

\* "PRESET %d" % presetVar, as code points
FormatPresetName(presetVar) ==
    <<80, 82, 69, 83, 69, 84, 32>>
    \o (IF presetVar < 10
        THEN <<48 + presetVar>>
        ELSE <<48 + (presetVar \div 10), 48 + (presetVar % 10)>>)

\* the operator and the channel fields syncDriver assigns from one tab
SyncOperator(g) ==
    [detune |-> g.varOperatorDetune, multiple |-> g.varOperatorMultiple,
     key_scale |-> g.varOperatorKeyScale, amp_mod_on |-> g.varOperatorAmpMod,
     ssg_envelope |-> SSGEGValues[g.comboOperatorSSGEG],
     total_level |-> g.varOperatorTotalLevel, attack_rate |-> g.varOperatorAttackRate,
     sustain_level |-> g.varOperatorSustainLevel,
     sustain_rate |-> g.varOperatorSustainRate, decay_rate |-> g.varOperatorDecayRate,
     release_rate |-> g.varOperatorReleaseRate]

SyncChannel(ch, g) ==
    [ch EXCEPT !.op_algorithm = g.varVoiceAlgorithm,
               !.feedback = g.varVoiceFeedback,
               !.audio_out = voiceOutValues[g.comboVoiceOut],
               !.phase_mod_sens = g.varVoicePMS,
               !.amp_mod_sens = g.varVoiceAMS,
               !.operator = [@ EXCEPT ![0] = SyncOperator(g.operator[0]),
                                      ![1] = SyncOperator(g.operator[1]),
                                      ![2] = SyncOperator(g.operator[2]),
                                      ![3] = SyncOperator(g.operator[3])]]

\* the loop over voiceId: each pass writes through slot voiceId, so an object
\* held by several slots keeps what the last of them wrote
RECURSIVE SyncVoices(_, _, _)
SyncVoices(h, g, voiceId) ==
    IF voiceId >= YM_MAX_VOICES
    THEN h
    ELSE SyncVoices([h EXCEPT ![channel[voiceId]] = SyncChannel(@, g.voice[voiceId])],
                    g, voiceId + 1)

\* syncDriver with the controls as g: lfo_on and lfo_freq are both assigned
\* int(self.varLfoRate.get())
syncDriver(g) ==
    /\ lfo_on' = g.varLfoRate
    /\ lfo_freq' = g.varLfoRate
    /\ heap' = SyncVoices(heap, g, 0)
    /\ edits' = IF edits < MaxEdits THEN edits + 1 ELSE edits
    /\ UNCHANGED <<self_attrs, channel>>

\* the chip calls of a sendCommand that loads the slot before saving to it
sendCommand_calls_load_first(presetSlot, reg_array) ==
    IF presetSlot = "Live"
    THEN <<CallRec("midi_set_reg_values", 0, << >>, 0,
                   send_midi_cmd(YM_SYSEX_CMD_SET_REG, reg_array))>>
    ELSE LET presetVar == int_presetSlot[presetSlot]
         IN  <<CallRec("midi_load_preset", presetVar, << >>, 0,
                       IF UserSlotOk(presetVar)
                       THEN send_midi_cmd(YM_SYSEX_CMD_LOAD_PRESET, <<presetVar>>)
                       ELSE Rejected),
               CallRec("midi_save_preset", presetVar, FormatPresetName(presetVar), 0,
                       IF UserSlotOk(presetVar)
                       THEN send_midi_cmd(YM_SYSEX_CMD_SAVE_PRESET,
                                SavePresetPayloadOf(presetVar, FormatPresetName(presetVar),
                                                    reg_array))
                       ELSE Rejected)>>

\* the chip calls sendCommand makes after syncDriver, in order; reg_array is
\* what get_reg_values_array returns on the image the synchronisation left
sendCommand_calls(presetSlot, reg_array) ==
    IF presetSlot = "Live"
    THEN <<CallRec("midi_set_reg_values", 0, << >>, 0,
                   send_midi_cmd(YM_SYSEX_CMD_SET_REG, reg_array))>>
    ELSE LET presetVar == int_presetSlot[presetSlot]
         IN  <<CallRec("midi_save_preset", presetVar, FormatPresetName(presetVar), 0,
                       IF UserSlotOk(presetVar)
                       THEN send_midi_cmd(YM_SYSEX_CMD_SAVE_PRESET,
                                SavePresetPayloadOf(presetVar, FormatPresetName(presetVar),
                                                    reg_array))
                       ELSE Rejected),
               CallRec("midi_load_preset", presetVar, << >>, 0,
                       IF UserSlotOk(presetVar)
                       THEN send_midi_cmd(YM_SYSEX_CMD_LOAD_PRESET, <<presetVar>>)
                       ELSE Rejected)>>

\* what a sequence of chip calls leaves on the transport and the clock
RECURSIVE WireOfCalls(_)
WireOfCalls(calls) ==
    IF calls = << >> THEN << >>
    ELSE WireEvents(Head(calls)) \o WireOfCalls(Tail(calls))

\* sendCommand, run by a handler that has left the controls as gui': the
\* synchronisation first, then the chip calls on the synchronised image
sendCommand ==
    /\ syncDriver(gui')
    /\ \E calls \in {sendCommand_calls(gui'.varPresetCombo, get_reg_values_array')} :
           /\ call' = calls[Len(calls)]
           /\ wire' = wire \o WireOfCalls(calls)
    /\ UNCHANGED <<midiout, pk>>

\* the tail of the handlers: if self.varLiveUpdate.get(): self.sendCommand()
LiveUpdate == IF gui'.varLiveUpdate THEN sendCommand ELSE ChipIdle

\* the UPDATE button
UpdateButton ==
    /\ GuiTick
    /\ gui_call' = GuiCallRec("sendCommand", 0, << >>)
    /\ UNCHANGED <<gui, vgi_disk>>
    /\ sendCommand

\* LIVE UPDATE is a check box without a command
check_varLiveUpdate ==
    /\ GuiTick
    /\ gui' = [gui EXCEPT !.varLiveUpdate = ~@]
    /\ gui_call' = GuiCallRec("check_varLiveUpdate", 0, << >>)
    /\ UNCHANGED vgi_disk

\* an entry of the preset combo box is selected: no handler is bound
select_varPresetCombo(presetSlot) ==
    /\ GuiTick
    /\ gui' = [gui EXCEPT !.varPresetCombo = presetSlot]
    /\ gui_call' = GuiCallRec("select_varPresetCombo", 0, << >>)
    /\ UNCHANGED vgi_disk

\* the LFO box is clicked: the box flips its variable, then runs updateLfoOn
updateLfoOn ==
    /\ GuiTick
    /\ gui' = [gui EXCEPT !.varLfoOn = 1 - @]
    /\ gui_call' = GuiCallRec("updateLfoOn", 0, << >>)
    /\ UNCHANGED vgi_disk
    /\ LiveUpdate

\* the LFO rate scale is released at eventVar
updateParameterEvent(eventVar) ==
    /\ GuiTick
    /\ gui' = [gui EXCEPT !.varLfoRate = eventVar]
    /\ gui_call' = GuiCallRec("updateParameterEvent", 0, << >>)
    /\ UNCHANGED vgi_disk
    /\ LiveUpdate

\* the inputs of the application's run
AppLfoRates == {0, 5}
AppPresetSlots == {"Live", "0", "4"}
AppVoiceControls == {<<"varVoiceFeedback", 7>>, <<"comboVoiceOut", "OFF">>}
AppOperatorControls == {<<"varOperatorTotalLevel", 127>>, <<"comboOperatorSSGEG", "RSDA OFF">>}

\* the constructor has handed the chip its transport (self.FmChip.midiout =
\* self.midiHandler): the main loop runs
AppReady == midiout

AppNext ==
    \/ set_midiout /\ Idle
    \/ AppReady /\ UpdateButton
    \/ AppReady /\ check_varLiveUpdate /\ ChipIdle
    \/ AppReady /\ check_varVoiceAll /\ ChipIdle
    \/ \E p \in AppPresetSlots : AppReady /\ select_varPresetCombo(p) /\ ChipIdle
    \/ AppReady /\ updateLfoOn
    \/ \E r \in AppLfoRates : AppReady /\ updateParameterEvent(r)
    \/ \E v \in GuiEditVoices, c \in AppVoiceControls :
           AppReady /\ updateParameterEventVoice(v, c[1], c[2]) /\ LiveUpdate
    \/ \E v \in GuiEditVoices, o \in EditOperators, c \in AppOperatorControls :
           AppReady /\ updateParameterEventOperator(v, o, c[1], c[2]) /\ LiveUpdate
    \/ \E v \in GuiEditVoices, o \in EditOperators :
           AppReady /\ updateAmpMod(v, o) /\ LiveUpdate

SpecApp == Init /\ [][AppNext]_vars


\* ------------------------------------------------------------ properties
\* the register image: everything the chip object holds besides the transport
Image == <<lfo_on, lfo_freq, self_attrs, channel, heap>>

\* the payload of the frame the last call handed to the transport
CallPayload == SubSeq(call.frame, 6, Len(call.frame) - 1)

\* the register section a SET_REG or SAVE_PRESET frame ends with: its last 296 bytes
CallRegs == SubSeq(CallPayload, Len(CallPayload) - 295, Len(CallPayload))

PresetOps == {"midi_save_preset", "midi_load_preset", "midi_load_default_preset"}

\* the last call sent the register array: SET_REG, or the custom preset's SET_REG
SentSetReg == call.sent /\ call.op \in {"midi_set_reg_values", "set_custom_preset"}
SentSave == call.sent /\ call.op = "midi_save_preset"

\* the last call is a preset command whose position is past the maximum of its kind
OutOfRange(c) ==
    \/ c.op \in {"midi_save_preset", "midi_load_preset"} /\ c.preset_pos >= 5
    \/ c.op = "midi_load_default_preset" /\ c.preset_pos >= 8

\* C1 as amended: in every reachable state the flattened register array has
\* exactly 296 = 2 + 6*(5 + 4*11) entries, whatever the fields hold, and so has
\* every SET_REG payload sent.
C1_FlattenLength ==
    /\ Len(get_reg_values_array) = 296
    /\ SentSetReg => Len(CallPayload) = 296

\* C1 as stated: the flattened register array has exactly 266 entries.
C1_FlattenLength266 == Len(get_reg_values_array) = 266

\* C1 witness: two image-changing calls were made, the slots share one object
\* after a file load, and a SET_REG frame went out.
C1_Witness ==
    /\ edits >= 2
    /\ channel[5] = channel[0]
    /\ call.op = "midi_set_reg_values"
    /\ call.sent

VoiceFieldOrder == <<"feedback", "op_algorithm", "audio_out", "amp_mod_sens", "phase_mod_sens">>
OperatorFieldOrder == <<"detune", "multiple", "total_level", "key_scale", "attack_rate",
                        "amp_mod_on", "decay_rate", "sustain_rate", "sustain_level",
                        "release_rate", "ssg_envelope">>

\* C2: the flattened array is lfo_on, lfo_freq, then per voice 0..5 its five
\* voice fields and its operators 0..3 with eleven fields each: field k of
\* operator o of voice c is at position 2 + 49*c + 5 + 11*o + k (counting from 1).
C2_FlattenOrder ==
    LET a == get_reg_values_array
    IN  /\ a[1] = lfo_on
        /\ a[2] = lfo_freq
        /\ \A c \in Voices :
              /\ \A k \in 1 .. 5 : a[2 + 49 * c + k] = ChannelObj(c)[VoiceFieldOrder[k]]
              /\ \A o \in Operators : \A k \in 1 .. 11 :
                    a[2 + 49 * c + 5 + 11 * o + k]
                        = ChannelObj(c).operator[o][OperatorFieldOrder[k]]

\* C2 witness: an image whose fields differ from one another (the custom preset
\* in every voice, then one field overwritten), so that an order shows.
C2_Witness ==
    /\ ChannelObj(0).operator[0].multiple = 15
    /\ ChannelObj(0).operator[0].detune = 3
    /\ ChannelObj(0).amp_mod_sens = 2
    /\ ChannelObj(5).operator[3].ssg_envelope = 300

\* the command code of the operation a call made
CommandCode(op) ==
    CASE op = "midi_save_preset" -> 1
      [] op = "midi_load_preset" -> 2
      [] op = "midi_load_default_preset" -> 3
      [] OTHER -> 0

\* C3: every frame handed to the transport is F0 00 12 34, the command code of
\* the operation invoked, the command's payload, F7.
C3_FrameShape ==
    call.sent =>
        LET f == call.frame
        IN  /\ Len(f) >= 6
            /\ f[1] = 240 /\ f[2] = 0 /\ f[3] = 18 /\ f[4] = 52
            /\ f[5] = CommandCode(call.op)
            /\ f[Len(f)] = 247
            /\ call.op \in PresetOps => CallPayload[1] = call.preset_pos
            /\ call.op \in {"midi_load_preset", "midi_load_default_preset"}
                   => Len(CallPayload) = 1
            /\ (SentSetReg \/ SentSave) => CallRegs = get_reg_values_array

\* C3 witness: a SAVE_PRESET frame was handed to the transport.
C3_Witness == SentSave /\ call.preset_pos = 4 /\ call.preset_name = NameLEAD

C5_RejectNoEffect ==
    [][OutOfRange(call') => (~call'.sent /\ call'.frame = << >> /\ Image' = Image)]_vars

\* C5 witness: SAVE_PRESET(5) was rejected with a transport set, on an image
\* a file load has changed.
C5_Witness ==
    /\ call.op = "midi_save_preset"
    /\ call.preset_pos = 5
    /\ call.transport
    /\ ~call.sent
    /\ channel[5] = channel[0]

\* C6: a failure is an outcome of its own: a load of a file that is not 43
\* bytes long returns something else than the successful load before it, and a
\* preset command rejected for its position returns something else than the
\* same command made before it without a transport.
C6_FailuresDistinct ==
    [][/\ (/\ call.op = "load_vgi_file" /\ call.vgi_len = 43
           /\ call'.op = "load_vgi_file" /\ call'.vgi_len # 43)
          => call'.retval # call.retval
       /\ (/\ call.op \in PresetOps /\ ~call.transport /\ ~OutOfRange(call)
           /\ call'.op = call.op /\ call'.transport /\ OutOfRange(call'))
          => call'.retval # call.retval]_vars

\* C7: whatever the length of the name, the name section of a SAVE_PRESET
\* payload is 30 bytes and the register values start at payload offset 31.
C7_NameSection ==
    SentSave =>
        /\ Len(CallPayload) - 1 - Len(get_reg_values_array) = 30
        /\ SubSeq(CallPayload, 32, Len(CallPayload)) = get_reg_values_array

\* C8: each byte b of the padded, encoded name is sent as b & 0x0F and then
\* (b >> 4) & 0x0F, in order, each in 0..15; for "LEAD" the name section starts
\* 0x0C 0x04 and characters 5..15 are spaces, sent as 0x00 0x02.
C8_NameNibbles ==
    SentSave =>
        LET b == encode(format_preset_name(call.preset_name))
            p == CallPayload
        IN  /\ \A i \in 1 .. Len(b) :
                  /\ p[2 * i] = b[i] % 16
                  /\ p[2 * i + 1] = (b[i] \div 16) % 16
                  /\ p[2 * i] \in 0 .. 15
                  /\ p[2 * i + 1] \in 0 .. 15
            /\ call.preset_name = NameLEAD =>
                  /\ p[2] = 12 /\ p[3] = 4
                  /\ \A i \in 5 .. 15 : p[2 * i] = 0 /\ p[2 * i + 1] = 2

\* C8 witness: SAVE_PRESET was sent with the name "LEAD".
C8_Witness == SentSave /\ call.preset_name = NameLEAD /\ call.preset_pos = 0

LfoWidths == <<1, 3>>
VoiceWidths == <<3, 3, 2, 2, 3>>
OperatorWidths == <<3, 4, 7, 2, 5, 1, 5, 5, 4, 4, 4>>
WidthAt(i) ==
    IF i <= 2 THEN LfoWidths[i]
    ELSE LET r == (i - 3) % 49
         IN  IF r < 5 THEN VoiceWidths[r + 1] ELSE OperatorWidths[((r - 5) % 11) + 1]

\* C10: every register value in a SET_REG or SAVE_PRESET payload handed to the
\* transport is a byte 0..255, equal to the field masked to its declared width.
C10_PayloadMasked ==
    (SentSetReg \/ SentSave) =>
        \A i \in 1 .. Len(CallRegs) :
            /\ CallRegs[i] \in 0 .. 255
            /\ CallRegs[i] = get_reg_values_array[i] % (2 ^ WidthAt(i))

\* ------------------------------------------------------------ packed registers
\* the width each field is declared with, and the position, in the order the
\* registers are read, of the register that packs it
DeclaredWidth ==
    [detune |-> 3, multiple |-> 4, total_level |-> 7, key_scale |-> 2, attack_rate |-> 5,
     amp_mod_on |-> 1, decay_rate |-> 5, sustain_rate |-> 5, sustain_level |-> 4,
     release_rate |-> 4, ssg_envelope |-> 4, feedback |-> 3, op_algorithm |-> 3,
     audio_out |-> 2, amp_mod_sens |-> 2, phase_mod_sens |-> 3]
RegisterOf ==
    [detune |-> 1, multiple |-> 1, total_level |-> 2, key_scale |-> 3, attack_rate |-> 3,
     amp_mod_on |-> 4, decay_rate |-> 4, sustain_rate |-> 5, sustain_level |-> 6,
     release_rate |-> 6, ssg_envelope |-> 7, feedback |-> 8, op_algorithm |-> 8,
     audio_out |-> 9, amp_mod_sens |-> 9, phase_mod_sens |-> 9]

\* the register at a position, packed from the objects p holds
PackedByte(position, p) ==
    CASE position = 1 -> get_reg_DETMUL(p.operator)
      [] position = 2 -> get_reg_TL(p.operator)
      [] position = 3 -> get_reg_KSAR(p.operator)
      [] position = 4 -> get_reg_AMDR(p.operator)
      [] position = 5 -> get_reg_SR(p.operator)
      [] position = 6 -> get_reg_SLRL(p.operator)
      [] position = 7 -> get_reg_SSGEG(p.operator)
      [] position = 8 -> get_reg_FBALG(p.channel)
      [] OTHER        -> get_reg_LRAMSPMS(p.channel)

\* the register that packs field f has been read
HasRead(f) == Len(pk.regs) >= RegisterOf[f]

\* C11: a register read from an object one of whose fields holds one more than
\* the largest value of its declared width (detune 8, multiple 16, total_level
\* 128, ..., feedback 8, ..., phase_mod_sens 8) is the byte the getter gives for
\* the same object with that field at 0, whatever the other fields of the byte hold.
C11_MaskingLaw ==
    /\ \A f \in OperatorFields :
           (HasRead(f) /\ pk.operator[f] = 2 ^ DeclaredWidth[f]) =>
               pk.regs[RegisterOf[f]] =
                   PackedByte(RegisterOf[f], [pk EXCEPT !.operator[f] = 0])
    /\ \A f \in VoiceFields :
           (HasRead(f) /\ pk.channel[f] = 2 ^ DeclaredWidth[f]) =>
               pk.regs[RegisterOf[f]] =
                   PackedByte(RegisterOf[f], [pk EXCEPT !.channel[f] = 0])

\* DETMUL has been read from an operator with detune 8 and multiple 9, and is 9
C11_Witness ==
    /\ Len(pk.regs) >= 1
    /\ pk.operator.detune = 8
    /\ pk.operator.multiple = 9
    /\ pk.regs[1] = 9

\* every field of the object is within its declared width
InRange(obj, fields) == \A f \in fields : obj[f] \in 0 .. (2 ^ DeclaredWidth[f] - 1)

\* the operator fields that the seven register bytes hold under the masks of the getters
UnpackOperator(regs) ==
    [detune |-> BitAnd(Shr(regs[1], 4), 7), multiple |-> BitAnd(regs[1], 15),
     total_level |-> BitAnd(regs[2], 127),
     key_scale |-> BitAnd(Shr(regs[3], 6), 3), attack_rate |-> BitAnd(regs[3], 31),
     amp_mod_on |-> BitAnd(Shr(regs[4], 7), 1), decay_rate |-> BitAnd(regs[4], 31),
     sustain_rate |-> BitAnd(regs[5], 31),
     sustain_level |-> BitAnd(Shr(regs[6], 4), 15), release_rate |-> BitAnd(regs[6], 15),
     ssg_envelope |-> BitAnd(regs[7], 15)]

\* C12: once the seven registers DETMUL, TL, KSAR, AMDR, SR, SLRL, SSGEG of an
\* operator whose fields are within their declared widths have been read,
\* unpacking them with the same masks gives back all 11 fields of the operator.
C12_OperatorRoundTrip ==
    (Len(pk.regs) >= 7 /\ InRange(pk.operator, OperatorFields)) =>
        UnpackOperator(pk.regs) = pk.operator

\* the seven registers of an operator with sustain_level 5 and release_rate 9,
\* its other fields at their largest, have been read
C12_Witness ==
    /\ Len(pk.regs) >= 7
    /\ InRange(pk.operator, OperatorFields)
    /\ pk.operator.sustain_level = 5
    /\ pk.operator.release_rate = 9
    /\ pk.operator.total_level = 127

\* the voice fields that FBALG and LRAMSPMS hold at the declared widths
UnpackVoice(fbalg, lramspms) ==
    [feedback |-> BitAnd(Shr(fbalg, 3), 7), op_algorithm |-> BitAnd(fbalg, 7),
     audio_out |-> BitAnd(Shr(lramspms, 6), 3), amp_mod_sens |-> BitAnd(Shr(lramspms, 4), 3),
     phase_mod_sens |-> BitAnd(lramspms, 7)]

\* C13: once FBALG and LRAMSPMS of a channel whose five voice fields are within
\* their declared widths (feedback 0..7) have been read, they determine the five
\* fields: no channel differing only in feedback packs to the same FBALG, and
\* unpacking the two bytes gives back the fields.
C13_VoiceRoundTrip ==
    (Len(pk.regs) = 9 /\ InRange(pk.channel, VoiceFields)) =>
        /\ \A fb \in (0 .. 7) \ {pk.channel.feedback} :
               get_reg_FBALG([pk.channel EXCEPT !.feedback = fb]) # pk.regs[8]
        /\ LET v == UnpackVoice(pk.regs[8], pk.regs[9])
           IN  \A f \in VoiceFields : v[f] = pk.channel[f]

\* C14: every operator register read has the documented layout, whatever the
\* fields hold: DETMUL = detune in bits 6..4, multiple in bits 3..0; TL =
\* total_level in bits 6..0; KSAR = key_scale in bits 7..6, attack_rate in bits
\* 4..0; AMDR = amp_mod_on in bit 7, decay_rate in bits 4..0; SR = sustain_rate
\* in bits 4..0; SLRL = sustain_level in bits 7..4, release_rate in bits 3..0;
\* SSGEG = ssg_envelope in bits 3..0; each is in 0..255 with every other bit 0.
C14_OperatorLayout ==
    LET op == pk.operator
        n == Len(pk.regs)
        r == pk.regs
    IN  /\ \A i \in 1 .. n : r[i] \in 0 .. 255
        /\ n >= 1 => r[1] = (op.detune % 8) * 16 + (op.multiple % 16)
        /\ n >= 2 => r[2] = op.total_level % 128
        /\ n >= 3 => r[3] = (op.key_scale % 4) * 64 + (op.attack_rate % 32)
        /\ n >= 4 => r[4] = (op.amp_mod_on % 2) * 128 + (op.decay_rate % 32)
        /\ n >= 5 => r[5] = op.sustain_rate % 32
        /\ n >= 6 => r[6] = (op.sustain_level % 16) * 16 + (op.release_rate % 16)
        /\ n >= 7 => r[7] = op.ssg_envelope % 16

\* KSAR has been read from an operator with key_scale 2 and attack_rate 21: 0x95
C14_Witness ==
    /\ Len(pk.regs) >= 3
    /\ pk.operator.key_scale = 2
    /\ pk.operator.attack_rate = 21
    /\ pk.regs[3] = 149

\* ------------------------------------------------------------ VGI files
\* C15: a file load given a buffer that is not 43 bytes long changes nothing:
\* load_vgi_file leaves every field of the register image as it was, and
\* loadVgiFile (alone or for every tab, from loadPreset) leaves every control
\* variable of every voice and operator as it was.
C15_BadSizeRejected ==
    [][/\ (edits' # edits /\ call'.op = "load_vgi_file" /\ call'.vgi_len # 43)
            => Image' = Image
       /\ (gui_steps' # gui_steps /\ gui_call'.op \in {"loadVgiFile", "loadPreset"}
             /\ Len(gui_call'.byte_data) # 43)
            => gui' = gui]_vars

\* voice tab 5 holds a loaded voice, and both the chip and the application have
\* then been given a 40 byte file
C15_Witness ==
    /\ call.op = "load_vgi_file"
    /\ call.vgi_len = 40
    /\ gui_call.op = "loadVgiFile"
    /\ Len(gui_call.byte_data) = 40
    /\ gui.voice[5] = GuiVgiVoice(VgiVoice)

\* the five voice fields and the 44 operator fields of a channel object are 0
ZeroChannel(ch) ==
    /\ \A f \in VoiceFields : ch[f] = 0
    /\ \A o \in Operators, f \in OperatorFields : ch.operator[o][f] = 0

\* the voice a tab stands for, in register values, is all zero
ZeroGuiVoice(v) ==
    /\ v.varVoiceFeedback = 0 /\ v.varVoiceAlgorithm = 0
    /\ voiceOutValues[v.comboVoiceOut] = 0
    /\ v.varVoiceAMS = 0 /\ v.varVoicePMS = 0
    /\ \A o \in Operators :
           /\ SSGEGValues[v.operator[o].comboOperatorSSGEG] = 0
           /\ \A c \in DOMAIN GuiOperator \ {"comboOperatorSSGEG"} : v.operator[o][c] = 0

\* C16: after a file of 43 zero bytes is decoded, the loaded voice is all zero:
\* feedback, algorithm, audio_out, amp_mod_sens, phase_mod_sens and every field
\* of the four operators are 0, in the chip (channel 0) and in the voice tab.
C16_ZeroFile ==
    /\ (call.op = "load_vgi_file" /\ call.vgi_data = VgiZero) => ZeroChannel(ChannelObj(0))
    /\ (gui_call.op = "loadVgiFile" /\ gui_call.byte_data = VgiZero)
           => ZeroGuiVoice(gui.voice[gui_call.voiceId])

\* a 43 byte file whose fields are all within their declared widths
WellFormedVgi(b) ==
    /\ Len(b) = 43
    /\ b[1] \in 0 .. 7 /\ b[2] \in 0 .. 7
    /\ b[3] \in 0 .. 255 /\ BitAnd(b[3], 8) = 0
    /\ \A i \in Operators :
           LET at(k) == b[3 + 10 * i + k]
           IN  /\ at(1) \in 0 .. 15 /\ at(2) \in 0 .. 7 /\ at(3) \in 0 .. 127
               /\ at(4) \in 0 .. 3 /\ at(5) \in 0 .. 31
               /\ at(6) \in 0 .. 255 /\ BitAnd(at(6), 96) = 0
               /\ at(7) \in 0 .. 31 /\ at(8) \in 0 .. 15 /\ at(9) \in 0 .. 15
               /\ at(10) \in 0 .. 15

\* C17: when a well-formed 43 byte file has been loaded into a voice tab and
\* that tab is saved next, the file written is byte for byte the file loaded.
C17_ByteRoundTrip ==
    [][(/\ gui_call.op = "loadVgiFile"
        /\ WellFormedVgi(gui_call.byte_data)
        /\ gui_steps' # gui_steps
        /\ gui_call'.op = "saveVgiFile"
        /\ gui_call'.voiceId = gui_call.voiceId)
       => vgi_disk' = gui_call.byte_data]_vars

\* every control of the voice tab is within the range of its widget
GuiInRange(v) ==
    /\ v.varVoiceFeedback \in 0 .. 7 /\ v.varVoiceAlgorithm \in 0 .. 7
    /\ v.varVoiceAMS \in 0 .. 3 /\ v.varVoicePMS \in 0 .. 7
    /\ \A o \in Operators :
           LET op == v.operator[o]
           IN  /\ op.varOperatorDetune \in 0 .. 7 /\ op.varOperatorMultiple \in 0 .. 15
               /\ op.varOperatorKeyScale \in 0 .. 3 /\ op.varOperatorAmpMod \in 0 .. 1
               /\ op.varOperatorTotalLevel \in 0 .. 127
               /\ op.varOperatorAttackRate \in 0 .. 31
               /\ op.varOperatorSustainLevel \in 0 .. 15
               /\ op.varOperatorSustainRate \in 0 .. 31
               /\ op.varOperatorDecayRate \in 0 .. 31
               /\ op.varOperatorReleaseRate \in 0 .. 15

\* C18: when a voice tab whose controls are in range has been saved and the
\* file written is loaded next, the tab loaded holds the voice that was saved,
\* in every control, the output selection and each SSG-EG mode included.
C18_VoiceRoundTrip ==
    [][(/\ gui_call.op = "saveVgiFile"
        /\ GuiInRange(gui.voice[gui_call.voiceId])
        /\ gui_steps' # gui_steps
        /\ gui_call'.op = "loadVgiFile"
        /\ gui_call'.byte_data = vgi_disk)
       => gui'.voice[gui_call'.voiceId] = gui.voice[gui_call.voiceId]]_vars

\* the operator fields that bytes 3+10*i .. 12+10*i of a file hold, in file order:
\* multiple, detune, total_level, key_scale, attack_rate, amp_mod_on/decay_rate,
\* sustain_rate, release_rate, sustain_level, ssg_envelope
FileOperator(b, i) ==
    LET at(k) == b[3 + 10 * i + k]
    IN  [multiple |-> at(1), detune |-> at(2), total_level |-> at(3), key_scale |-> at(4),
         attack_rate |-> at(5), amp_mod_on |-> (at(6) \div 128) % 2, decay_rate |-> at(6) % 32,
         sustain_rate |-> at(7), release_rate |-> at(8), sustain_level |-> at(9),
         ssg_envelope |-> at(10)]

\* the last call decoded a 43 byte file
LoadedVgi == call.op = "load_vgi_file" /\ call.vgi_len = 43

\* each operator of channel 0 holds the fields of its ten bytes of the file
C19_OperatorsLoaded ==
    LoadedVgi => \A i \in Operators : ChannelObj(0).operator[i] = FileOperator(call.vgi_data, i)

\* C19: after load_vgi_file has decoded a 43 byte file b, the loaded voice
\* (channel 0) holds algorithm = b[0], feedback = b[1], audio_out = (b[2] >> 6) & 3,
\* amp_mod_sens = (b[2] >> 4) & 3, phase_mod_sens = b[2] & 7, the flattened
\* register array shows them at the five voice positions of voice 0, and each
\* operator i holds the fields of bytes 3+10*i .. 12+10*i.
C19_VgiDecoded ==
    LoadedVgi =>
        LET b == call.vgi_data
            ch == ChannelObj(0)
            regs == get_reg_values_array
        IN  /\ ch.op_algorithm = b[1]
            /\ ch.feedback = b[2]
            /\ ch.audio_out = (b[3] \div 64) % 4
            /\ ch.amp_mod_sens = (b[3] \div 16) % 4
            /\ ch.phase_mod_sens = b[3] % 8
            /\ SubSeq(regs, 3, 7) = <<b[2], b[1], (b[3] \div 64) % 4, (b[3] \div 16) % 4, b[3] % 8>>
            /\ \A i \in Operators : ch.operator[i] = FileOperator(b, i)

\* the slots whose voice a step changes
ChangedSlots == {c \in Voices : heap'[channel'[c]] # heap[channel[c]]}

\* C20: the six slots hold independent voices in every reachable state, file
\* loads included: no two slots refer to one object, and a write to a field of
\* one channel, or of one of its operators, changes the voice of no other slot.
C20_NoAliasing ==
    [][/\ \A i, j \in Voices : i # j => channel[i] # channel[j]
       /\ (edits' # edits /\ call'.op = "set_field") => Cardinality(ChangedSlots) <= 1]_vars

\* ------------------------------------------------------------ image invariants
\* C21: in every reachable state the voice stored at channel index i, for each
\* i in 0..5, has channel_id = i.
C21_ChannelIdentity == \A i \in Voices : ChannelObj(i).channel_id = i

SerializeOps == {"midi_set_reg_values", "midi_save_preset", "midi_load_preset",
                 "midi_load_default_preset"}

\* C22: midi_set_reg_values, midi_save_preset, midi_load_preset,
\* midi_load_default_preset and the register getters change neither lfo_on,
\* lfo_freq nor any voice or operator field, accepted or not, with a transport
\* or without; the frame of a SET_REG is the one of the image as it was before
\* the call, so two SET_REG with no write in between send the same frame.
C22_SerializersPure ==
    [][/\ (call'.op \in SerializeOps /\ edits' = edits) => Image' = Image
       /\ (pk'.regs # pk.regs) =>
              /\ pk'.operator = pk.operator
              /\ pk'.channel = pk.channel
              /\ Image' = Image
       /\ (call'.op = "midi_set_reg_values" /\ edits' = edits /\ call'.sent) =>
              call'.frame = SysexFrame(YM_SYSEX_CMD_SET_REG, get_reg_values_array)]_vars

\* the custom preset is loaded, a SET_REG has been sent and a getter has been read
C22_Witness ==
    /\ call.op = "midi_set_reg_values"
    /\ call.sent
    /\ lfo_on = 1
    /\ Len(pk.regs) >= 1

\* no call has written the image since the chip was constructed
Fresh == edits = 0

\* C23 as amended: a freshly created chip image has lfo_on = lfo_freq = 0 and,
\* for every voice 0..5, feedback, algorithm, amp_mod_sens, phase_mod_sens and
\* the 11 fields of each of the 4 operators at 0, and audio_out at 3 (both
\* outputs); its flattened register array holds 3 at the audio_out position of
\* each voice and 0 everywhere else.
C23_FreshDefaults ==
    Fresh =>
        /\ lfo_on = 0 /\ lfo_freq = 0
        /\ \A c \in Voices :
               /\ \A f \in VoiceFields \ {"audio_out"} : ChannelObj(c)[f] = 0
               /\ ChannelObj(c).audio_out = 3
               /\ \A o \in Operators, f \in OperatorFields : ChannelObj(c).operator[o][f] = 0
        /\ \A i \in 1 .. Len(get_reg_values_array) :
               get_reg_values_array[i] = IF i > 2 /\ (i - 3) % 49 = 2 THEN 3 ELSE 0

\* C23 as stated: in a freshly created image every field, audio_out included,
\* is 0, and the flattened register array contains only zeros.
C23_FreshAllZero ==
    Fresh =>
        /\ lfo_on = 0 /\ lfo_freq = 0
        /\ \A c \in Voices : ZeroChannel(ChannelObj(c))
        /\ \A i \in 1 .. Len(get_reg_values_array) : get_reg_values_array[i] = 0

\* the registers of a fresh image have been sent: the payload shows audio_out 3
\* for voice 0
C23_Witness ==
    /\ Fresh
    /\ call.op = "midi_set_reg_values"
    /\ call.sent
    /\ CallPayload[5] = 3

\* ------------------------------------------------------------ C24
\* the last call was a preset command whose position check let it through, or a
\* command that has no position check
ReachedSender(c) == c.op \in SerializeOps /\ ~OutOfRange(c)

\* C24 as amended: every frame handed to the transport is followed, before
\* anything else is sent, by a delay of YM_MIDI_DELAY, so two successive frames
\* are always separated by a delay; a command call that reaches the sender
\* performs the delay whether it sent a frame or not; a preset command rejected
\* for its position returns with neither a frame nor a delay.
C24_DelayAfterEveryFrame ==
    /\ \A i \in 1..Len(wire) :
           wire[i].kind = "frame"
           => /\ i < Len(wire)
              /\ wire[i + 1].kind = "delay"
              /\ wire[i + 1].data = <<YM_MIDI_DELAY>>
    /\ ReachedSender(call) => call.slept
    /\ (call.op \in SerializeOps /\ OutOfRange(call)) => (~call.sent /\ ~call.slept)

\* C24 as stated: every command call, whether it sent a frame or not, performs
\* the delay before returning.
C24_EveryCallDelays == call.op \in SerializeOps => call.slept

\* two frames went out, with the delay between them and after the second
C24_Witness ==
    /\ Len(wire) = 4
    /\ wire[1].kind = "frame" /\ wire[2].kind = "delay"
    /\ wire[3].kind = "frame" /\ wire[4].kind = "delay"
    /\ wire[1].data # wire[3].data

\* ------------------------------------------------------------ C25
\* the handlers that end with "if self.varLiveUpdate.get(): self.sendCommand()"
LiveHandlers == {"updateLfoOn", "updateParameterEvent", "updateParameterEventVoice",
                 "updateParameterEventOperator", "updateAmpMod"}

\* this step is a handler of the application that ran sendCommand
SendCommandStep ==
    /\ gui_steps' # gui_steps
    /\ \/ gui_call'.op = "sendCommand"
       \/ gui_call'.op \in LiveHandlers /\ gui'.varLiveUpdate

\* what this step added to the transport and the clock
NewWire == SubSeq(wire', Len(wire) + 1, Len(wire'))

IsDelay(e) == e.kind = "delay" /\ e.data = <<YM_MIDI_DELAY>>

\* every voice and operator field of the image equals its control, and
\* lfo_freq equals the LFO rate scale
VoicesMatchControls ==
    /\ lfo_freq = gui.varLfoRate
    /\ \A v \in Voices :
         LET ch == ChannelObj(v)
             g == gui.voice[v]
         IN  /\ ch.op_algorithm = g.varVoiceAlgorithm
             /\ ch.feedback = g.varVoiceFeedback
             /\ ch.audio_out = voiceOutValues[g.comboVoiceOut]
             /\ ch.phase_mod_sens = g.varVoicePMS
             /\ ch.amp_mod_sens = g.varVoiceAMS
             /\ \A o \in Operators :
                  LET op == ch.operator[o]
                      go == g.operator[o]
                  IN  /\ op.detune = go.varOperatorDetune
                      /\ op.multiple = go.varOperatorMultiple
                      /\ op.key_scale = go.varOperatorKeyScale
                      /\ op.amp_mod_on = go.varOperatorAmpMod
                      /\ op.ssg_envelope = SSGEGValues[go.comboOperatorSSGEG]
                      /\ op.total_level = go.varOperatorTotalLevel
                      /\ op.attack_rate = go.varOperatorAttackRate
                      /\ op.sustain_level = go.varOperatorSustainLevel
                      /\ op.sustain_rate = go.varOperatorSustainRate
                      /\ op.decay_rate = go.varOperatorDecayRate
                      /\ op.release_rate = go.varOperatorReleaseRate

\* the text "PRESET n" left-justified in 15 characters
PresetNameText(n) == <<80, 82, 69, 83, 69, 84, 32, 48 + n, 32, 32, 32, 32, 32, 32, 32>>

\* frame f is SAVE_PRESET for slot n, named "PRESET n", carrying reg_array
IsSaveFrame(f, n, reg_array) ==
    /\ Len(f) = 333
    /\ f[1] = 240 /\ f[5] = YM_SYSEX_CMD_SAVE_PRESET /\ f[6] = n /\ f[333] = 247
    /\ \A i \in 1 .. 15 : f[5 + 2 * i] + 16 * f[6 + 2 * i] = PresetNameText(n)[i]
    /\ SubSeq(f, 37, 332) = reg_array

\* C25: a sendCommand first synchronises the image from the controls and then
\* sends: with 'Live' selected exactly one SET_REG frame, with slot n selected
\* exactly two frames, SAVE_PRESET(n, "PRESET n") carrying the registers just
\* synchronised and then LOAD_PRESET(n), each followed by its delay; the load
\* never comes before the save, and a handler that does not run sendCommand
\* sends nothing.
C25_SendCommandOrder ==
    [][ IF SendCommandStep
        THEN /\ VoicesMatchControls'
             /\ IF gui'.varPresetCombo = "Live"
                THEN /\ Len(NewWire) = 2
                     /\ NewWire[1].kind = "frame"
                     /\ NewWire[1].data
                            = SysexFrame(YM_SYSEX_CMD_SET_REG, get_reg_values_array')
                     /\ IsDelay(NewWire[2])
                ELSE /\ Len(NewWire) = 4
                     /\ NewWire[1].kind = "frame"
                     /\ IsSaveFrame(NewWire[1].data, int_presetSlot[gui'.varPresetCombo],
                                    get_reg_values_array')
                     /\ IsDelay(NewWire[2])
                     /\ NewWire[3].kind = "frame"
                     /\ NewWire[3].data
                            = SysexFrame(YM_SYSEX_CMD_LOAD_PRESET,
                                         <<int_presetSlot[gui'.varPresetCombo]>>)
                     /\ IsDelay(NewWire[4])
        ELSE wire' = wire ]_vars

\* a sendCommand with slot 4 selected has gone out after a control of voice 5
\* was moved: the save frame carries the moved value and the load frame follows
C25_Witness ==
    /\ gui.varPresetCombo = "4"
    /\ gui.voice[5].varVoiceFeedback = 7
    /\ call.op = "midi_load_preset" /\ call.sent /\ call.preset_pos = 4
    /\ Len(wire) >= 4
    /\ wire[Len(wire) - 3].kind = "frame"
    /\ wire[Len(wire) - 3].data[5] = YM_SYSEX_CMD_SAVE_PRESET
    /\ wire[Len(wire) - 3].data[37 + 2 + 5 * 49] = 7
    /\ wire[Len(wire) - 1].data[5] = YM_SYSEX_CMD_LOAD_PRESET

\* ------------------------------------------------------------ C26
\* C26: after syncDriver every chip field equals its control: lfo_on equals the
\* LFO check box, lfo_freq equals the LFO rate scale, and every voice and
\* operator field equals the control of its tab.
C26_SyncMatchesControls ==
    [][ SendCommandStep => (lfo_on' = gui'.varLfoOn /\ VoicesMatchControls') ]_vars

====
